---- MODULE Spec2Model ----
(***************************************************************************)
(* simpleperf (simplePerf.py): a client process that opens N parallel TCP  *)
(* connections and streams filler bytes, and a server process that counts  *)
(* the bytes of every accepted connection.                                 *)
(*                                                                         *)
(* One client process (main, lines 67-81, and its client() workers), one   *)
(* server process (server(), lines 131-141, and its handle_client threads) *)
(* and the TCP byte streams between them.  Connection k is the connection  *)
(* opened by the k-th submitted task; the stream client -> server of a     *)
(* connection is START line ++ filler ++ BYE, kept as byte counts.         *)
(* Time is in whole seconds: clock is the value time.time() returned last, *)
(* and every read of the time draws how much time has passed since.        *)
(***************************************************************************)
EXTENDS Integers, Sequences, FiniteSets, TLC

\* ---- bounds of the model ------------------------------------------------
MaxConn == 2          \* largest --connections
MaxChunks == 2        \* largest number of full chunks a transfer sends
MaxDuration == 1      \* largest --time
MaxInterval == 1      \* largest --interval
MaxClock == 3         \* time passes between reads only until the clock shows this
MaxClockPar == 1      \* the same, when several connections run
MaxStep == 1          \* largest time passed between two reads of the time
MaxTail == 1          \* a read may stop up to MaxTail bytes short of what was written
MaxEmptyReads == 2    \* empty reads counted per server session

\* ---- program constants --------------------------------------------------
None == -1            \* argparse default=None of --num, --time, --interval
CHUNK == 1000         \* min(1000, ...) and b'0' * 1000
RECV_MAX == 1000      \* conn.recv(1000), s.recv(1000)
DEFAULT_TIME == 25    \* args.time = 25
DRAIN_SLEEP == 6      \* time.sleep(6)
START_LEN == 19       \* len("START 1700000000.5\n"), a START line
KB_DIV == 1000
MB_DIV == 1000000

BYE == <<"B", "Y", "E">>
ACK_BYE == <<"A", "C", "K", ":", " ", "B", "Y", "E">>

Formats == {"B", "KB", "MB"}
Conns == 1 .. MaxConn

Min(a, b) == IF a < b THEN a ELSE b

VARIABLES
    args,       \* the parsed command line of the client process
    main,       \* the client's main thread: pc, futures, exit status
    cli,        \* cli[k]: the client() call of the k-th submitted task
    wire,       \* wire[k]: the TCP connection of task k, both directions
    lsn,        \* the server's listening socket and accept loop
    srv,        \* srv[k]: the handle_client thread of connection k
    clock,      \* the value the last time.time() returned, in whole seconds
    stats_prev_total_sent
                \* the attribute print_interval_stats.prev_total_sent of the
                \* client process (line 176)

vars == <<args, main, cli, wire, lsn, srv, clock, stats_prev_total_sent>>

\* ---- configuration ------------------------------------------------------
\* --num values: 1B, one chunk, MaxChunks chunks and a byte
Nums == {1, CHUNK, MaxChunks * CHUNK + 1}

Configs ==
    [num : Nums \cup {None},
     time : (1 .. MaxDuration) \cup {None},
     interval : (1 .. MaxInterval) \cup {None},
     connections : Conns,
     format : Formats,
     sformat : Formats]

\* one connection, every transfer limit and interval, formats MB
Single == {c \in Configs : c.connections = 1 /\ c.format = "MB" /\ c.sformat = "MB"}
\* one connection of one chunk, every pair of formats
Formatted ==
    {c \in Configs : /\ c.connections = 1 /\ c.num = CHUNK
                     /\ c.time = None /\ c.interval = None}
\* several connections of one byte each, and one connection with reports
Parallel ==
    {c \in Configs : /\ c.num = 1 /\ c.time = None
                     /\ c.format = "MB" /\ c.sformat = "MB"
                     /\ \/ c.connections > 1 /\ c.interval = None
                        \/ c.connections = 1 /\ c.interval # None}
\* several connections of one byte each, all with reports
Reporting ==
    {c \in Configs : /\ c.connections > 1 /\ c.num = 1 /\ c.time = None
                     /\ c.interval # None
                     /\ c.format = "MB" /\ c.sformat = "MB"}

\* ---- initial state: before main() runs and before the server binds -------
NoCli ==
    [pc |-> "idle", connection_id |-> None, num_bytes |-> None, duration |-> None,
     interval |-> None, start_time |-> None, last_print_time |-> None,
     total_sent |-> 0, prev_total_sent |-> 0, wake |-> None,
     sent |-> <<>>, report |-> <<>>, nreports |-> 0, reported |-> 0,
     summary |-> <<>>, data |-> <<>>]

NoWire ==
    [cliSock |-> "none", srvSock |-> "none", startLen |-> 0, filler |-> 0, bye |-> 0,
     c2sRead |-> 0, s2c |-> 0, s2cRead |-> 0]

NoSrv ==
    [pc |-> "none", order |-> 0, start_time |-> None, total_received |-> 0, emptyReads |-> 0,
     gotBye |-> FALSE, sent |-> <<>>, stats |-> <<>>]

InitWith(cfgs) ==
    /\ args \in cfgs
    /\ main = [pc |-> "parse", submitted |-> 0, waitIdx |-> 1, raised |-> FALSE, exit |-> None]
    /\ cli = [k \in Conns |-> NoCli]
    /\ wire = [k \in Conns |-> NoWire]
    /\ lsn = [pc |-> "init", backlog |-> <<>>, accepted |-> 0]
    /\ srv = [k \in Conns |-> NoSrv]
    /\ clock = 0
    /\ stats_prev_total_sent = 0

Init == InitWith(Single \cup Formatted)
InitPar == InitWith(Parallel)
InitRep == InitWith(Reporting)

\* the time that may have passed since the time was read last
ClockLimit == IF args.connections > 1 THEN MaxClockPar ELSE MaxClock
Advances == IF clock < ClockLimit THEN 0 .. MaxStep ELSE {0}

CliEnded(k) == cli[k].pc \in {"done", "raised"}
CliRunning(k) == cli[k].pc \notin {"idle", "done", "raised", "killed"}

\* ---- main(), client branch (lines 67-81) ---------------------------------
\* lines 69-73 without the default of line 70
ParseArgsNoDefault ==
    /\ main.pc = "parse"
    /\ IF args.num # None /\ args.time # None
       THEN main' = [main EXCEPT !.pc = "exit", !.exit = 0]
       ELSE main' = [main EXCEPT !.pc = "submit"]
    /\ UNCHANGED <<args, cli, wire, lsn, srv, clock, stats_prev_total_sent>>

\* lines 69-73: default the duration, or reject --num with --time and return
ParseArgs ==
    /\ main.pc = "parse"
    /\ IF args.num = None /\ args.time = None
       THEN /\ args' = [args EXCEPT !.time = DEFAULT_TIME]
            /\ main' = [main EXCEPT !.pc = "submit"]
       ELSE IF args.num # None /\ args.time # None
       THEN /\ main' = [main EXCEPT !.pc = "exit", !.exit = 0]
            /\ UNCHANGED args
       ELSE /\ main' = [main EXCEPT !.pc = "submit"]
            /\ UNCHANGED args
    /\ UNCHANGED <<cli, wire, lsn, srv, clock, stats_prev_total_sent>>

\* line 77: the connection id of the task submitted for i in range(connections)
ConnId(i) == i + 1

\* line 76: ThreadPoolExecutor(max_workers=args.connections)
MaxWorkersOne == Min(1, args.connections)
MaxWorkers == args.connections

\* a worker thread can take a submitted task: fewer than max_workers run one
WorkerFree ==
    Cardinality({j \in Conns : CliRunning(j) /\ cli[j].pc # "connect"}) < MaxWorkers

\* line 77: executor.submit(client, ..., i + 1) queues the task for a worker
Submit ==
    /\ main.pc = "submit"
    /\ LET i == main.submitted
           k == i + 1
       IN /\ cli' = [cli EXCEPT ![k] = [NoCli EXCEPT !.pc = "connect",
                                          !.connection_id = ConnId(i),
                                          !.num_bytes = args.num,
                                          !.duration = args.time,
                                          !.interval = args.interval]]
          /\ main' = [main EXCEPT !.submitted = k,
                                  !.pc = IF k = args.connections THEN "wait" ELSE "submit"]
    /\ UNCHANGED <<args, wire, lsn, srv, clock, stats_prev_total_sent>>

\* lines 80-81: future.result() of the futures in submission order; the first
\* exception leaves the loop
WaitResult ==
    /\ main.pc = "wait"
    /\ CliEnded(main.waitIdx)
    /\ IF cli[main.waitIdx].pc = "raised"
       THEN main' = [main EXCEPT !.pc = "shutdown", !.raised = TRUE]
       ELSE IF main.waitIdx = args.connections
       THEN main' = [main EXCEPT !.pc = "shutdown"]
       ELSE main' = [main EXCEPT !.waitIdx = @ + 1]
    /\ UNCHANGED <<args, cli, wire, lsn, srv, clock, stats_prev_total_sent>>

\* line 76, leaving the with block: executor.shutdown(wait=True) joins every
\* worker, then main returns (status 0) or the exception ends the process (1)
ExecutorExitNoWait ==
    /\ main.pc = "shutdown"
    /\ main' = [main EXCEPT !.pc = "exit", !.exit = IF main.raised THEN 1 ELSE 0]
    /\ UNCHANGED <<args, cli, wire, lsn, srv, clock, stats_prev_total_sent>>

ExecutorExit ==
    /\ main.pc = "shutdown"
    /\ \A k \in 1 .. main.submitted : CliEnded(k)
    /\ main' = [main EXCEPT !.pc = "exit", !.exit = IF main.raised THEN 1 ELSE 0]
    /\ UNCHANGED <<args, cli, wire, lsn, srv, clock, stats_prev_total_sent>>


\* ---- the byte streams of a connection ------------------------------------
\* the pos-th byte the client has written: START line, then filler, then BYE
C2SByte(w, pos) ==
    IF pos <= w.startLen THEN "s"
    ELSE IF pos <= w.startLen + w.filler THEN "0"
    ELSE BYE[pos - w.startLen - w.filler]

C2SLen(w) == w.startLen + w.filler + w.bye
C2SAvail(w) == C2SLen(w) - w.c2sRead
\* the next n unread bytes of the client's stream
C2SData(w, n) == [j \in 1 .. n |-> C2SByte(w, w.c2sRead + j)]
\* the server writes nothing but ACK: BYE (line 112)
S2CAvail(w) == w.s2c - w.s2cRead
S2CData(w, n) == [j \in 1 .. n |-> ACK_BYE[w.s2cRead + j]]

\* the sizes recv(1000) returns when avail bytes have been written and not
\* read: all of them up to the cap, or all but a tail still in flight
ReadSizes(avail) ==
    {n \in 1 .. Min(RECV_MAX, avail) : n = Min(RECV_MAX, avail) \/ n >= avail - MaxTail}

\* s.sendall(...) of n bytes of one kind on connection k
Pushed(w, kind, n) ==
    IF kind = "START" THEN [w EXCEPT !.startLen = n]
    ELSE IF kind = "FILL" THEN [w EXCEPT !.filler = @ + n]
    ELSE [w EXCEPT !.bye = n]

Transmission(kind, n) == [kind |-> kind, len |-> n]

\* an exception leaves client(): the with block closes the socket and the
\* future holds the exception
Raised(c) == [c EXCEPT !.pc = "raised"]
Closed(w) == [w EXCEPT !.cliSock = "closed"]

\* sendall on connection k, then the session continues as `next`; when the
\* server's end is gone the kernel may still take the bytes, or the call
\* raises BrokenPipeError / ConnectionResetError
ClientSend(k, kind, n, next) ==
    \/ /\ wire' = [wire EXCEPT ![k] = Pushed(@, kind, n)]
       /\ cli' = [cli EXCEPT ![k] = [next EXCEPT !.sent = Append(@, Transmission(kind, n))]]
    \/ /\ wire[k].srvSock = "closed"
       /\ wire' = [wire EXCEPT ![k] = Closed(@)]
       /\ cli' = [cli EXCEPT ![k] = Raised(@)]

\* ---- client(), lines 195-255 ---------------------------------------------
\* a worker takes the task; lines 197-213: s.connect, refused unless the
\* server is listening; then start_time, the interval anchor, the counters
\* and the START line
Connect(k) ==
    /\ cli[k].pc = "connect"
    /\ WorkerFree
    /\ IF lsn.pc = "accept"
       THEN /\ \E len \in {START_LEN}, d \in Advances :
                  /\ clock' = clock + d
                  /\ wire' = [wire EXCEPT ![k] =
                                 Pushed([@ EXCEPT !.cliSock = "open", !.srvSock = "backlog"],
                                        "START", len)]
                  /\ cli' = [cli EXCEPT ![k] =
                                [@ EXCEPT !.pc = "loop",
                                          !.start_time = clock',
                                          !.last_print_time =
                                              IF cli[k].interval # None THEN clock' ELSE None,
                                          !.total_sent = 0,
                                          !.prev_total_sent = 0,
                                          !.sent = Append(@, Transmission("START", len))]]
            /\ lsn' = [lsn EXCEPT !.backlog = Append(@, k)]
       ELSE /\ wire' = [wire EXCEPT ![k] = Closed(@)]
            /\ cli' = [cli EXCEPT ![k] = Raised(@)]
            /\ UNCHANGED <<lsn, clock>>
    /\ UNCHANGED <<args, main, srv, stats_prev_total_sent>>

\* line 218: to_send = min(1000, num_bytes - total_sent)
ToSendFixed(num_bytes, total_sent) == CHUNK
ToSend(num_bytes, total_sent) == Min(CHUNK, num_bytes - total_sent)

\* line 227: end_time = start_time + duration
EndTime(c) == c.start_time + c.duration

\* the loop condition as it would be if it counted chunks, not time
LoopCondNoClock(c, now) ==
    IF c.num_bytes # None THEN c.total_sent < c.num_bytes
    ELSE c.total_sent < CHUNK

\* lines 217 and 228: the condition of the send loop, time.time() being now
LoopCond(c, now) ==
    IF c.num_bytes # None THEN c.total_sent < c.num_bytes
    ELSE now < EndTime(c)

\* the loop condition reads the time only in the duration branch
LoopAdvances(c) == IF c.num_bytes # None THEN {0} ELSE Advances

\* lines 219 and 229: the size of the chunk of this iteration
ChunkSize(c) ==
    IF c.num_bytes # None THEN ToSend(c.num_bytes, c.total_sent) ELSE CHUNK

\* where the iteration goes after the send: line 221/231 reads the time only
\* when interval is set
AfterSend(c) == IF c.interval # None THEN "check" ELSE "loop"

\* lines 217-220 and 228-230: one iteration sends a chunk and counts it
LoopSend(k) ==
    /\ cli[k].pc = "loop"
    /\ cli[k].num_bytes = None => cli[k].total_sent < MaxChunks * CHUNK
    /\ \E d \in LoopAdvances(cli[k]) :
          /\ LoopCond(cli[k], clock + d)
          /\ clock' = clock + d
    /\ LET n == ChunkSize(cli[k])
       IN ClientSend(k, "FILL", n,
                     [cli[k] EXCEPT !.pc = AfterSend(cli[k]), !.total_sent = @ + n])
    /\ UNCHANGED <<args, main, lsn, srv, stats_prev_total_sent>>

\* the test as it would be without the comparison of the time
IntervalDueAlways(c, now) == c.interval # None

\* lines 221 and 231: is an interval report due, time.time() being now
IntervalDue(c, now) == c.interval # None /\ now - c.last_print_time >= c.interval

IntervalCheck(k) ==
    /\ cli[k].pc = "check"
    /\ \E d \in Advances :
          /\ clock' = clock + d
          /\ cli' = [cli EXCEPT ![k].pc =
                        IF IntervalDue(cli[k], clock') THEN "report" ELSE "loop"]
    /\ UNCHANGED <<args, main, wire, lsn, srv, stats_prev_total_sent>>

\* print_interval_stats, lines 154-171: the line printed, before formatting,
\* current_time being now
IntervalStats(now, start_time, prev_total_sent, interval, total_sent) ==
    LET elapsed_time == now - start_time
    IN [from |-> elapsed_time - interval,
        to |-> elapsed_time,
        interval_transfer |-> total_sent - prev_total_sent,
        interval |-> interval]

\* the report as it would be if print_interval_stats kept the counter of the
\* last report in its own attribute instead of taking it from the session
ReportShared(k) ==
    /\ cli[k].pc = "report"
    /\ \E d \in Advances :
          LET c == cli[k]
              line == IntervalStats(clock + d, c.start_time, stats_prev_total_sent,
                                    c.interval, c.total_sent)
          IN /\ clock' = clock + d
             /\ cli' = [cli EXCEPT ![k] =
                           [c EXCEPT !.pc = "anchor",
                                     !.report = <<line>>,
                                     !.nreports = @ + 1,
                                     !.reported = @ + line.interval_transfer]]
    /\ stats_prev_total_sent' = cli[k].total_sent
    /\ UNCHANGED <<args, main, wire, lsn, srv>>

\* lines 222 and 232
Report(k) ==
    /\ cli[k].pc = "report"
    /\ \E d \in Advances :
          LET c == cli[k]
              line == IntervalStats(clock + d, c.start_time, c.prev_total_sent,
                                    c.interval, c.total_sent)
          IN /\ clock' = clock + d
             /\ cli' = [cli EXCEPT ![k] =
                           [c EXCEPT !.pc = "anchor",
                                     !.report = <<line>>,
                                     !.nreports = @ + 1,
                                     !.reported = @ + line.interval_transfer]]
    /\ UNCHANGED <<args, main, wire, lsn, srv, stats_prev_total_sent>>

\* lines 223-224 and 233-234
Anchor(k) ==
    /\ cli[k].pc = "anchor"
    /\ \E d \in Advances :
          /\ clock' = clock + d
          /\ cli' = [cli EXCEPT ![k] = [@ EXCEPT !.pc = "loop",
                                                 !.last_print_time = clock',
                                                 !.prev_total_sent = cli[k].total_sent]]
    /\ UNCHANGED <<args, main, wire, lsn, srv, stats_prev_total_sent>>

\* the loop condition is false: time.sleep(6) starts (line 237)
LoopExit(k) ==
    /\ cli[k].pc = "loop"
    /\ \E d \in LoopAdvances(cli[k]) :
          /\ ~LoopCond(cli[k], clock + d)
          /\ clock' = clock + d
          /\ cli' = [cli EXCEPT ![k] = [@ EXCEPT !.pc = "sleep",
                                                 !.wake = clock' + DRAIN_SLEEP]]
    /\ UNCHANGED <<args, main, wire, lsn, srv, stats_prev_total_sent>>

\* lines 237-238: the sleep is over, so the time is wake or later;
\* s.sendall(b'BYE')
SendBye(k) ==
    /\ cli[k].pc = "sleep"
    /\ clock' = IF clock < cli[k].wake THEN cli[k].wake ELSE clock
    /\ ClientSend(k, "BYE", Len(BYE), [cli[k] EXCEPT !.pc = "ack"])
    /\ UNCHANGED <<args, main, lsn, srv, stats_prev_total_sent>>

\* lines 245-250: the divisor of the configured format
Divisor(format) ==
    IF format = "KB" THEN KB_DIV ELSE IF format = "MB" THEN MB_DIV ELSE 1

\* lines 241-255 and 115-129: the summary printed; a quotient a / b is kept
\* as <<a, b>>
FinalSummary(total, elapsed_time, format) ==
    [elapsed_time |-> elapsed_time,
     total |-> <<total, Divisor(format)>>,
     bandwidth |-> <<total, elapsed_time * Divisor(format)>>,
     format |-> format]

\* the test as it would be if any read counted as the acknowledgment
IsAckAnyRead(data) == TRUE

\* line 240: data == b'ACK: BYE'
IsAck(data) == data = ACK_BYE

\* lines 239-252 with data read: for ACK: BYE the summary is computed and its
\* printing begins; otherwise client() returns and the with block closes the
\* socket
AckReturn(k, data) ==
    /\ \E d \in IF IsAck(data) THEN Advances ELSE {0} :
          /\ clock' = clock + d
          /\ cli' = [cli EXCEPT ![k] =
                        [@ EXCEPT !.pc = IF IsAck(data) THEN "print" ELSE "done",
                                  !.data = data,
                                  !.summary =
                                      IF IsAck(data)
                                      THEN Append(@, FinalSummary(cli[k].total_sent,
                                                    clock' - cli[k].start_time, args.format))
                                      ELSE @]]
    /\ wire' = [wire EXCEPT ![k] = [@ EXCEPT !.cliSock = IF IsAck(data) THEN @ ELSE "closed",
                                             !.s2cRead = @ + Len(data)]]

\* lines 253-255: the three print calls of the summary write to sys.stdout,
\* each its text and then its line end; when the last has returned client()
\* returns and the with block closes the socket.  No lock is taken.
PrintSummary(k) ==
    /\ cli[k].pc = "print"
    /\ cli' = [cli EXCEPT ![k].pc = "done"]
    /\ wire' = [wire EXCEPT ![k].cliSock = "closed"]
    /\ UNCHANGED <<args, main, lsn, srv, clock, stats_prev_total_sent>>

\* line 239: s.recv(1000) blocks until bytes arrive or the server's end is
\* closed; then it returns b'' or raises ConnectionResetError
RecvAck(k) ==
    /\ cli[k].pc = "ack"
    /\ \/ \E n \in ReadSizes(S2CAvail(wire[k])) : AckReturn(k, S2CData(wire[k], n))
       \/ /\ S2CAvail(wire[k]) = 0
          /\ wire[k].srvSock = "closed"
          /\ \/ AckReturn(k, <<>>)
             \/ /\ wire' = [wire EXCEPT ![k] = Closed(@)]
                /\ cli' = [cli EXCEPT ![k] = Raised(@)]
                /\ UNCHANGED clock
    /\ UNCHANGED <<args, main, lsn, srv, stats_prev_total_sent>>

\* ---- server(), lines 131-141 ---------------------------------------------
SrvRunning(k) == srv[k].pc \in {"recv", "stats"}

\* lines 132-135: bind and listen
Listen ==
    /\ lsn.pc = "init"
    /\ lsn' = [lsn EXCEPT !.pc = "accept"]
    /\ UNCHANGED <<args, main, cli, wire, srv, clock, stats_prev_total_sent>>

\* conn of connection k is handed to a new handle_client thread, which runs
\* up to its receive loop (lines 100-105)
Spawned(k) ==
    /\ \E d \in Advances :
          /\ clock' = clock + d
          /\ srv' = [srv EXCEPT ![k] = [@ EXCEPT !.pc = "recv",
                                                 !.order = lsn.accepted + 1,
                                                 !.start_time = clock',
                                                 !.total_received = 0]]
    /\ lsn' = [lsn EXCEPT !.backlog = Tail(@), !.accepted = @ + 1]
    /\ wire' = [wire EXCEPT ![k].srvSock = IF wire[k].srvSock = "backlog" THEN "open" ELSE @]

\* the accept loop as it would be if it joined each thread it starts
AcceptJoin ==
    /\ lsn.pc = "accept"
    /\ lsn.backlog # <<>>
    /\ \A j \in Conns : ~SrvRunning(j)
    /\ Spawned(Head(lsn.backlog))
    /\ UNCHANGED <<args, main, cli, stats_prev_total_sent>>

\* lines 138-141: s.accept() takes the oldest established connection and
\* client_thread.start() runs handle_client for it; the loop does not join
Accept ==
    /\ lsn.pc = "accept"
    /\ lsn.backlog # <<>>
    /\ Spawned(Head(lsn.backlog))
    /\ UNCHANGED <<args, main, cli, stats_prev_total_sent>>

\* ---- handle_client, lines 98-129 -----------------------------------------
\* line 111: data == b'BYE'
IsByeAnyRead(data) == TRUE
IsBye(data) == data = BYE

\* the n bytes read are compared as bytes only when their number fits BYE
ReadIsBye(w, n) == IF n = Len(BYE) THEN IsBye(C2SData(w, n)) ELSE IsBye(<<"0">>)

\* lines 109-113 with n bytes read (n = 0: the peer has closed)
Received(k, n) ==
    LET bye == n > 0 /\ ReadIsBye(wire[k], n)
    IN /\ srv' = [srv EXCEPT ![k] =
                     [@ EXCEPT !.total_received = @ + n,
                               !.emptyReads = IF n = 0 THEN @ + 1 ELSE @,
                               !.gotBye = bye,
                               !.sent = IF bye THEN Append(@, Transmission("ACK", Len(ACK_BYE)))
                                        ELSE @,
                               !.pc = IF bye THEN "stats" ELSE "recv"]]
       /\ wire' = [wire EXCEPT ![k] =
                      [@ EXCEPT !.c2sRead = @ + n,
                                !.s2c = IF bye THEN @ + Len(ACK_BYE) ELSE @]]

\* lines 108-113: one iteration of the receive loop; recv blocks while the
\* connection is open and nothing is readable
Recv(k) ==
    /\ srv[k].pc = "recv"
    /\ \/ \E n \in ReadSizes(C2SAvail(wire[k])) : Received(k, n)
       \/ /\ C2SAvail(wire[k]) = 0
          /\ wire[k].cliSock = "closed"
          /\ srv[k].emptyReads < MaxEmptyReads
          /\ Received(k, 0)
    /\ UNCHANGED <<args, main, cli, lsn, clock, stats_prev_total_sent>>

\* lines 115-129: the statistics line in the server's --format; leaving
\* `with conn` closes the socket
Stats(k) ==
    /\ srv[k].pc = "stats"
    /\ \E d \in Advances :
          /\ clock' = clock + d
          /\ srv' = [srv EXCEPT ![k] =
                        [@ EXCEPT !.pc = "done",
                                  !.stats = Append(@, FinalSummary(srv[k].total_received,
                                                  clock' - srv[k].start_time, args.sformat))]]
    /\ wire' = [wire EXCEPT ![k].srvSock = "closed"]
    /\ UNCHANGED <<args, main, cli, lsn, stats_prev_total_sent>>

\* ---- environment ----------------------------------------------------------
\* the client process is terminated from outside while sessions run: its
\* sockets close without BYE, and what its threads held is gone
ClientKill ==
    /\ \E k \in Conns : CliRunning(k) /\ wire[k].cliSock = "open"
    /\ main' = [main EXCEPT !.pc = "killed"]
    /\ cli' = [k \in Conns |-> IF CliRunning(k) THEN [NoCli EXCEPT !.pc = "killed"] ELSE cli[k]]
    /\ wire' = [k \in Conns |->
                   IF wire[k].cliSock = "open" THEN Closed(wire[k]) ELSE wire[k]]
    /\ UNCHANGED <<args, lsn, srv, clock, stats_prev_total_sent>>

\* the server process is shut down from outside (the listener's only end)
\* while connections are established; what its threads held is gone
ServerKill ==
    /\ lsn.pc = "accept"
    /\ \E k \in Conns : wire[k].srvSock \in {"backlog", "open"}
    /\ lsn' = [lsn EXCEPT !.pc = "down", !.backlog = <<>>]
    /\ srv' = [k \in Conns |-> IF SrvRunning(k) THEN [NoSrv EXCEPT !.pc = "killed"] ELSE srv[k]]
    /\ wire' = [k \in Conns |->
                   IF wire[k].srvSock \in {"backlog", "open"}
                   THEN [wire[k] EXCEPT !.srvSock = "closed"] ELSE wire[k]]
    /\ UNCHANGED <<args, main, cli, clock, stats_prev_total_sent>>

\* ---- specification --------------------------------------------------------
ClientStep(k) ==
    \/ Connect(k) \/ LoopSend(k) \/ IntervalCheck(k) \/ Report(k)
    \/ Anchor(k) \/ LoopExit(k) \/ SendBye(k) \/ RecvAck(k) \/ PrintSummary(k)

ServerStep(k) == Recv(k) \/ Stats(k)

MainStep == ParseArgs \/ Submit \/ WaitResult \/ ExecutorExit

Next ==
    \/ ParseArgs
    \/ Submit
    \/ WaitResult
    \/ ExecutorExit
    \/ \E k \in Conns : Connect(k)
    \/ \E k \in Conns : LoopSend(k)
    \/ \E k \in Conns : IntervalCheck(k)
    \/ \E k \in Conns : Report(k)
    \/ \E k \in Conns : Anchor(k)
    \/ \E k \in Conns : LoopExit(k)
    \/ \E k \in Conns : SendBye(k)
    \/ \E k \in Conns : RecvAck(k)
    \/ \E k \in Conns : PrintSummary(k)
    \/ Listen
    \/ Accept
    \/ \E k \in Conns : Recv(k)
    \/ \E k \in Conns : Stats(k)
    \/ ClientKill
    \/ ServerKill

Spec == Init /\ [][Next]_vars
SpecPar == InitPar /\ [][Next]_vars
SpecRep == InitRep /\ [][Next]_vars

\* every thread that can run does run; the kills are not owed
Fairness ==
    /\ WF_vars(MainStep)
    /\ \A k \in Conns : WF_vars(ClientStep(k))
    /\ WF_vars(Listen)
    /\ WF_vars(Accept)
    /\ \A k \in Conns : WF_vars(ServerStep(k))

FairSpec == Spec /\ Fairness


\* ======================= the claims =======================================
Kinds(t) == [j \in 1 .. Len(t) |-> t[j].kind]
HasSent(k, kind) == \E j \in 1 .. Len(cli[k].sent) : cli[k].sent[j].kind = kind
PastLoop(k) == cli[k].pc \in {"sleep", "ack", "print", "done"}

\* C1: in a byte-limited session every filler chunk sent has 1..1000 bytes,
\* total_sent never exceeds num_bytes, and once the send loop has been left
\* total_sent is exactly num_bytes
C1_ByteLimit ==
    \A k \in Conns :
        cli[k].num_bytes # None =>
            /\ \A j \in 1 .. Len(cli[k].sent) :
                   cli[k].sent[j].kind = "FILL" =>
                       cli[k].sent[j].len >= 1 /\ cli[k].sent[j].len <= 1000
            /\ cli[k].total_sent <= cli[k].num_bytes
            /\ PastLoop(k) => cli[k].total_sent = cli[k].num_bytes

\* a transfer of more than one chunk has ended, its last chunk a single byte
C1_Witness ==
    \E k \in Conns :
        /\ cli[k].pc = "done"
        /\ cli[k].num_bytes = MaxChunks * CHUNK + 1
        /\ cli[k].total_sent = cli[k].num_bytes
        /\ Len(cli[k].sent) = MaxChunks + 3
        /\ cli[k].sent[MaxChunks + 2] = Transmission("FILL", 1)

\* C2: once recv has returned 0 bytes (the peer closed without BYE) the
\* receive-mode session is no longer in its receive loop
C2_EmptyReadEndsLoop ==
    \A k \in Conns : srv[k].emptyReads > 0 => srv[k].pc # "recv"

\* C3: a receive-mode session that has read the BYE marker after k payload
\* bytes counts, and reports, exactly k bytes
C3_RoundTrip ==
    \A k \in Conns :
        srv[k].gotBye =>
            /\ srv[k].total_received = wire[k].filler
            /\ \A j \in 1 .. Len(srv[k].stats) : srv[k].stats[j].total[1] = wire[k].filler

\* C4: a send-mode session that has sent BYE and has ended without reading
\* ACK: BYE has ended with an exception for the orchestrator
C4_NoAckFails ==
    \A k \in Conns :
        (CliEnded(k) /\ HasSent(k, "BYE") /\ ~IsAck(cli[k].data)) => cli[k].pc = "raised"

\* C5: a send-mode session that waits for the acknowledgment does not wait
\* forever
C5_AckWaitEnds ==
    \A k \in Conns : (cli[k].pc = "ack") ~> (cli[k].pc # "ack")

\* C6: the exception of a failed session ends the client process only after
\* every session has ended by itself, and no submitted session is taken back
C6_FailIndependent ==
    /\ main.pc = "exit" /\ main.submitted > 0 =>
           \A k \in 1 .. args.connections : CliEnded(k)
    /\ main.pc \in {"wait", "shutdown", "exit"} =>
           \A k \in 1 .. args.connections : cli[k].pc # "idle"
    /\ (\E k \in Conns : cli[k].pc = "raised") /\ main.pc = "exit" => main.exit = 1

\* the first session failed to connect, the second ran to its summary, and
\* the process has ended with the failure
C6_Witness ==
    /\ args.connections = 2
    /\ main.pc = "exit" /\ main.exit = 1
    /\ cli[1].pc = "raised"
    /\ cli[2].pc = "done" /\ Len(cli[2].summary) = 1

\* C7: the N submitted sessions carry the ids 1..N, each once; a submitted
\* session never waits for a worker; the process does not exit while one runs
C7_ParallelSessions ==
    /\ main.pc \in {"wait", "shutdown", "exit"} =>
           /\ main.submitted = args.connections
           /\ {cli[k].connection_id : k \in 1 .. args.connections} = 1 .. args.connections
           /\ \A k \in Conns : k > args.connections => cli[k].pc = "idle"
    /\ \A k \in Conns : cli[k].pc = "connect" => WorkerFree
    /\ main.pc = "exit" => \A k \in Conns : ~CliRunning(k)

\* all N > 1 sessions are in their send loop at the same time
C7_Witness ==
    /\ args.connections > 1
    /\ \A k \in 1 .. args.connections : cli[k].pc = "loop" /\ cli[k].total_sent = 0

\* C8: the client sends START first, then only filler, then the 3 bytes BYE
\* once and last; the server sends nothing but the 8 bytes ACK: BYE, once,
\* after it has read the whole of BYE, and its session closes only after that
C8_WireOrder ==
    \A k \in Conns :
        /\ LET t == cli[k].sent
           IN /\ Len(t) > 0 => t[1].kind = "START"
              /\ \A j \in 2 .. Len(t) :
                     \/ t[j].kind = "FILL" /\ t[j].len > 0
                     \/ t[j] = Transmission("BYE", 3) /\ j = Len(t)
        /\ srv[k].sent \in {<<>>, <<Transmission("ACK", 8)>>}
        /\ wire[k].s2c \in {0, 8}
        /\ wire[k].s2c = 8 => wire[k].bye = 3 /\ C2SAvail(wire[k]) = 0
        /\ srv[k].pc = "done" => srv[k].sent # <<>> /\ wire[k].s2c = 8

\* a whole exchange: START, two chunks, BYE; ACK: BYE read; both ends closed
C8_Witness ==
    \E k \in Conns :
        /\ Kinds(cli[k].sent) = <<"START", "FILL", "FILL", "BYE">>
        /\ cli[k].pc = "done" /\ IsAck(cli[k].data)
        /\ srv[k].pc = "done"
        /\ wire[k].cliSock = "closed" /\ wire[k].srvSock = "closed"

\* C9: whatever the sessions do, the listener accepts a connection that waits
C9_ListenerNeverBlocks ==
    (lsn.pc = "accept" /\ lsn.backlog # <<>>) => ENABLED Accept

\* a session is stuck in recv for good (its peer waits for the ACK, nothing
\* is left to read) and a connection accepted after it has been served
C9_Witness ==
    \E j, k \in Conns :
        /\ srv[j].pc = "recv"
        /\ wire[j].cliSock = "open" /\ wire[j].bye = 3 /\ C2SAvail(wire[j]) = 0
        /\ srv[k].order > srv[j].order
        /\ srv[k].pc = "done"

\* C10: with both --num and --time no session is started, no connection is
\* attempted, and the process exits with a non-zero status
C10_BothRejected ==
    (args.num # None /\ args.time # None) =>
        /\ main.submitted = 0
        /\ \A k \in Conns : cli[k].pc = "idle" /\ wire[k].cliSock = "none"
        /\ main.pc = "exit" => main.exit # 0

\* a session that has been started (a killed session holds nothing any more)
Started(k) == cli[k].pc \notin {"idle", "killed"}

\* C11: every started session runs with exactly one of num_bytes / duration,
\* the ones main holds; as long as neither is given no session is started,
\* and the step main takes then sets the duration to 25
C11_ExactlyOneLimit ==
    /\ [](\A k \in Conns :
             Started(k) =>
                 /\ (cli[k].num_bytes = None) # (cli[k].duration = None)
                 /\ cli[k].num_bytes = args.num /\ cli[k].duration = args.time)
    /\ []((args.num = None /\ args.time = None) => main.submitted = 0)
    /\ [][(args.num = None /\ args.time = None /\ main' # main) =>
              (args'.time = DEFAULT_TIME /\ main'.submitted = 0)]_vars

\* a session runs with the default duration, nothing having been given
C11_Witness ==
    \E k \in Conns :
        /\ cli[k].pc = "loop"
        /\ cli[k].num_bytes = None /\ cli[k].duration = DEFAULT_TIME
        /\ cli[k].total_sent = CHUNK

\* the time.time() that ended the send loop: time.sleep(6) started then
LoopExitTime(k) == cli[k].wake - DRAIN_SLEEP

\* C12: a duration-limited session has left its send loop only at or after
\* start_time + duration, and all it sends in the loop is chunks of 1000
\* bytes, so total_sent is a multiple of 1000
C12_DeadlineReached ==
    \A k \in Conns :
        (Started(k) /\ cli[k].duration # None) =>
            /\ PastLoop(k) => LoopExitTime(k) - cli[k].start_time >= cli[k].duration
            /\ \A j \in 1 .. Len(cli[k].sent) :
                   cli[k].sent[j].kind = "FILL" => cli[k].sent[j].len = 1000
            /\ cli[k].total_sent % 1000 = 0
            /\ cli[k].total_sent =
                   1000 * Cardinality({j \in 1 .. Len(cli[k].sent) : cli[k].sent[j].kind = "FILL"})

\* a session of --time MaxDuration has sent chunks before its deadline, has
\* left the loop at a later reading of the time, and has ended
C12_Witness ==
    \E k \in Conns :
        /\ cli[k].pc = "done"
        /\ cli[k].duration = MaxDuration
        /\ cli[k].total_sent = MaxChunks * CHUNK
        /\ LoopExitTime(k) - cli[k].start_time > cli[k].duration

\* a session has printed an interval report and has not yet reset its anchors
JustReported(k) == cli[k].pc = "anchor"

\* C13: the byte delta of an interval report is the session's own total_sent
\* less its own prev_total_sent, whatever the other sessions do, and the
\* attribute of print_interval_stats is never written
C13_PerSessionDelta ==
    /\ stats_prev_total_sent = 0
    /\ \A k \in Conns :
           JustReported(k) =>
               cli[k].report[1].interval_transfer = cli[k].total_sent - cli[k].prev_total_sent

\* two sessions are in their reporting path at the same time, each with the
\* bytes it has sent itself as its delta
C13_Witness ==
    \E j, k \in Conns :
        /\ j # k
        /\ JustReported(j) /\ JustReported(k)
        /\ cli[j].report[1].interval_transfer = cli[j].total_sent
        /\ cli[k].report[1].interval_transfer = cli[k].total_sent
        /\ cli[k].total_sent > 0

\* C14: the window of an interval report starts at the time of the previous
\* report of the session (at its start for the first report) and ends at the
\* time of the report, both counted from the session's start
C14_ReportWindow ==
    \A k \in Conns :
        JustReported(k) =>
            /\ cli[k].report[1].from = cli[k].last_print_time - cli[k].start_time
            /\ cli[k].report[1].to <= clock - cli[k].start_time
            /\ cli[k].report[1].to >= cli[k].report[1].from

\* the time.time() of the last interval report of session k
ReportTime(k) == cli[k].report[1].to + cli[k].start_time

\* C15: a session without --interval reports nothing; a report is printed
\* only interval seconds or more after the previous anchor, its delta is the
\* bytes sent since the previous report, and the anchors are reset after it:
\* the deltas reported add up to total_sent as it was at the last report
C15_ReportDeltas ==
    \A k \in Conns :
        Started(k) =>
            /\ cli[k].interval = None => cli[k].nreports = 0 /\ cli[k].report = <<>>
            /\ cli[k].nreports = 0 => cli[k].reported = 0 /\ cli[k].prev_total_sent = 0
            /\ cli[k].reported <= cli[k].total_sent
            /\ JustReported(k) =>
                   /\ ReportTime(k) - cli[k].last_print_time >= cli[k].interval
                   /\ cli[k].report[1].interval_transfer =
                          cli[k].total_sent - cli[k].prev_total_sent
                   /\ cli[k].reported = cli[k].total_sent
            /\ ~JustReported(k) =>
                   /\ cli[k].prev_total_sent = cli[k].reported
                   /\ cli[k].nreports > 0 => cli[k].last_print_time >= ReportTime(k)

\* a second report has been printed, with less than all bytes as its delta
C15_Witness ==
    \E k \in Conns :
        /\ JustReported(k)
        /\ cli[k].nreports = 2
        /\ cli[k].report[1].interval_transfer = CHUNK
        /\ cli[k].reported = 2 * CHUNK

\* session k is inside the print calls of its final summary
Printing(k) == cli[k].pc = "print"

\* C16: no two sessions of the client process are inside a write of their
\* output at the same time
C16_StdoutSerialized ==
    Cardinality({k \in Conns : Printing(k)}) <= 1

\* the bandwidth a / b of a summary is bytes * 8 / elapsed_time / 1e6
IsMbps(line) ==
    line.bandwidth[1] * line.elapsed_time * 1000000 = line.total[1] * 8 * line.bandwidth[2]

\* C17: whatever the format, the bandwidth of a final summary is the bytes
\* transferred * 8 / the seconds elapsed / 1e6, and the byte count shown is
\* the bytes transferred / the divisor of the format
C17_BandwidthUnit ==
    \A k \in Conns :
        /\ \A j \in 1 .. Len(cli[k].summary) :
               /\ IsMbps(cli[k].summary[j])
               /\ cli[k].summary[j].total = <<cli[k].total_sent, Divisor(args.format)>>
        /\ \A j \in 1 .. Len(srv[k].stats) :
               /\ IsMbps(srv[k].stats[j])
               /\ srv[k].stats[j].total = <<srv[k].total_received, Divisor(args.sformat)>>

\* the connection of session k has been cut by the end of a process
Cut(k) == main.pc = "killed" \/ lsn.pc = "down"

\* C18: when a session has sent START, its filler and BYE, then, unless a
\* process ends, the server's session sends ACK: BYE and closes and the
\* client's session prints its summary, however the bytes are split into
\* the server's reads
C18_HandshakeCompletes ==
    \A k \in Conns :
        (cli[k].pc = "ack" /\ wire[k].bye = Len(BYE)) ~>
            \/ Cut(k)
            \/ /\ srv[k].pc = "done" /\ srv[k].sent # <<>>
               /\ wire[k].srvSock = "closed"
               /\ Len(cli[k].summary) = 1

====
